---- MODULE Spec2Model ----
(***************************************************************************)
(* ResearchWriter: repository analysis (ResearchAgent), deployment         *)
(* derivation (DeploymentAgent), documentation writing (WriterAgent), the  *)
(* orchestrator (RepoDocumentationCrew) and the command surface (cli).     *)
(*                                                                         *)
(* Strings are TLA+ strings; Len, SubSeq and \o act on them character by   *)
(* character.  Paths of the working tree are sequences of entry names.     *)
(***************************************************************************)
EXTENDS Integers, Sequences, FiniteSets, TLC

VARIABLES
    commits,        \* repo.iter_commits(): the authors of the history, in order
    total_commits,  \* basic_info["total_commits"], or NoValue before it is computed
    contributors,   \* the list built by _analyze_contributors
    cpos,           \* number of commits the aggregation loop has processed
    cpc,            \* position inside the history part of analyze_repository
    fs,             \* the working tree below repo_path: the set of its file paths
    structure,      \* the mapping returned by _analyze_structure
    languages,      \* the mapping returned by _detect_languages
    tpc,            \* position inside the file-walking part of analyze_repository
    reqContent,     \* the text of <repo_path>/requirements.txt
    dependencies,   \* the mapping returned by _analyze_dependencies
    dpc,            \* position inside the dependency part of analyze_repository
    entry,          \* "cli": cli.main; "crew": RepoDocumentationCrew used directly
    repoState,      \* what repo_path names: nothing, no repository, a detached HEAD, a branch
    credential,     \* where an API key is found: "arg", "env" or "none"
    include_deployment,
    output_path,
    disk0,          \* the files below the output location when the run starts
    diskDirs,       \* the directories below the output location
    diskFiles,      \* the files below the output location: path -> text
    pc,             \* the stage the run is about to execute
    raised,         \* the exception in flight or reported, NoValue when none
    exitCode,       \* the value cli.main returned, -1 before it returns
    printed,        \* the last message cli.main printed
    crew,           \* whether RepoDocumentationCrew has been constructed
    building,       \* the values analyze_repository has evaluated so far
    analysis_results,
    configs,        \* the values generate_deployment_config has evaluated so far
    sections,       \* the sections WriterAgent.generate_documentation has so far
    doc,            \* the text returned by _combine_sections
    log,            \* the stages completed, in order
    llmCalls        \* the number of agent.execute_task calls made

NoValue == "<none>"

(***************************************************************************)
(* Generic helpers                                                         *)
(***************************************************************************)
Range(s) == {s[i] : i \in 1..Len(s)}

RECURSIVE SumCommits(_)
SumCommits(list) ==
    IF list = <<>> THEN 0 ELSE Head(list).commits + SumCommits(Tail(list))

\* list.index(x): the first position holding a value equal to x
IndexOf(list, x) == CHOOSE i \in 1..Len(list) : list[i] = x /\ \A j \in 1..(i-1) : list[j] # x

(***************************************************************************)
(* Strings                                                                 *)
(***************************************************************************)
UpperLetters == "ABCDEFGHIJKLMNOPQRSTUVWXYZ"
LowerLetters == "abcdefghijklmnopqrstuvwxyz"

CharAt(s, i) == SubSeq(s, i, i)

UpperSet == {CharAt(UpperLetters, i) : i \in 1..Len(UpperLetters)}

LowerOf ==
    [c \in UpperSet |->
        CharAt(LowerLetters, CHOOSE i \in 1..Len(UpperLetters) : CharAt(UpperLetters, i) = c)]

LowerChar(c) == IF c \in UpperSet THEN LowerOf[c] ELSE c

\* str.lower()
RECURSIVE Lower(_)
Lower(s) == IF s = "" THEN "" ELSE LowerChar(CharAt(s, 1)) \o Lower(SubSeq(s, 2, Len(s)))

\* needle in s
Contains(s, needle) ==
    \E i \in 1..(Len(s) - Len(needle) + 1) : SubSeq(s, i, i + Len(needle) - 1) = needle

\* str.endswith
EndsWith(s, suffix) ==
    Len(s) >= Len(suffix) /\ SubSeq(s, Len(s) - Len(suffix) + 1, Len(s)) = suffix

\* s.rfind(c) for a one-character c, 1-based; 0 when c does not occur
RFind(s, c) ==
    IF \E i \in 1..Len(s) : CharAt(s, i) = c
    THEN CHOOSE i \in 1..Len(s) : CharAt(s, i) = c /\ \A j \in (i+1)..Len(s) : CharAt(s, j) # c
    ELSE 0

\* s.find(c) for a one-character c, 1-based; 0 when c does not occur
Find(s, c) ==
    IF \E i \in 1..Len(s) : CharAt(s, i) = c
    THEN CHOOSE i \in 1..Len(s) : CharAt(s, i) = c /\ \A j \in 1..(i-1) : CharAt(s, j) # c
    ELSE 0

\* sep.join(parts)
RECURSIVE JoinWith(_, _)
JoinWith(sep, parts) ==
    IF parts = <<>> THEN ""
    ELSE IF Len(parts) = 1 THEN parts[1]
    ELSE parts[1] \o sep \o JoinWith(sep, Tail(parts))

\* s.split(sep) for a one-character sep
RECURSIVE Split(_, _)
Split(s, sep) ==
    LET i == Find(s, sep)
    IN  IF i = 0 THEN <<s>>
        ELSE <<SubSeq(s, 1, i - 1)>> \o Split(SubSeq(s, i + 1, Len(s)), sep)

\* str.splitlines() on texts whose only line boundary is "\n"
RECURSIVE Splitlines(_)
Splitlines(s) ==
    IF s = "" THEN <<>>
    ELSE LET i == Find(s, "\n")
         IN  IF i = 0 THEN <<s>>
             ELSE <<SubSeq(s, 1, i - 1)>> \o Splitlines(SubSeq(s, i + 1, Len(s)))

\* os.path.splitext(name)[1] for a name without a directory separator:
\* the part from the last dot on, unless only dots precede that dot
SplitExt(name) ==
    LET dotIndex == RFind(name, ".")
    IN  IF dotIndex > 0 /\ \E k \in 1..(dotIndex - 1) : CharAt(name, k) # "."
        THEN SubSeq(name, dotIndex, Len(name))
        ELSE ""

\* an enumeration of a finite set (a directory listing has no defined order)
RECURSIVE SetToSeq(_)
SetToSeq(S) ==
    IF S = {} THEN <<>>
    ELSE LET x == CHOOSE y \in S : TRUE IN <<x>> \o SetToSeq(S \ {x})

\* dict[k] = v
Put(dict, k, v) == [x \in (DOMAIN dict) \cup {k} |-> IF x = k THEN v ELSE dict[x]]

EmptyDict == <<>>

(***************************************************************************)
(* Bounds and input sets of the history part                               *)
(***************************************************************************)
MaxCommits == 4

Authors ==
    { [name |-> "ann", email |-> "ann@x.org"],
      [name |-> "ann", email |-> "ann@y.org"],
      [name |-> "bob", email |-> "bob@x.org"] }

\* iter_commits() needs a HEAD commit: a history the analysis can traverse is not empty
Histories == UNION {[1..n -> Authors] : n \in 1..MaxCommits}

(***************************************************************************)
(* ResearchAgent._analyze_contributors: one iteration of the loop          *)
(***************************************************************************)
ContribStepSkewed(list, author) ==
    LET contributor == [name |-> author.name, email |-> author.email, commits |-> 1]
    IN  IF contributor \notin Range(list)
        THEN Append(list, contributor)
        ELSE LET idx == IndexOf(list, contributor)
             IN  [list EXCEPT ![idx].commits = @ + 2]

\* the aggregation as a keyed lookup on (name, email)
ContribStepKeyed(list, author) ==
    LET same(r) == r.name = author.name /\ r.email = author.email
    IN  IF \A i \in 1..Len(list) : ~same(list[i])
        THEN Append(list, [name |-> author.name, email |-> author.email, commits |-> 1])
        ELSE LET idx == CHOOSE i \in 1..Len(list) :
                            same(list[i]) /\ \A j \in 1..(i-1) : ~same(list[j])
             IN  [list EXCEPT ![idx].commits = @ + 1]

ContribStep(list, author) ==
    LET contributor == [name |-> author.name, email |-> author.email, commits |-> 1]
    IN  IF contributor \notin Range(list)
        THEN Append(list, contributor)
        ELSE LET idx == IndexOf(list, contributor)
             IN  [list EXCEPT ![idx].commits = @ + 1]

\* the whole loop, as one fold over the history
RECURSIVE ContribFold(_, _)
ContribFold(list, history) ==
    IF history = <<>> THEN list
    ELSE ContribFold(ContribStep(list, Head(history)), Tail(history))

_analyze_contributors(history) == ContribFold(<<>>, history)

\* ResearchAgent._get_basic_info; total_commits is sum(1 for _ in repo.iter_commits())
_get_basic_info(history) ==
    [name           |-> "repo",
     description    |-> "Unnamed repository",
     default_branch |-> "main",
     total_commits  |-> Len(history),
     branches       |-> <<"main">>]

(***************************************************************************)
(* The working tree.  A tree is the set of its file paths, a path being    *)
(* the sequence of entry names from repo_path down to the file; the        *)
(* directories are the proper prefixes of the file paths.                  *)
(***************************************************************************)
IsPrefix(d, p) == Len(d) <= Len(p) /\ SubSeq(p, 1, Len(d)) = d

Dirs(tree) == {<<>>} \cup UNION {{SubSeq(p, 1, k) : k \in 0..(Len(p) - 1)} : p \in tree}

\* the names os.walk reports as dirs and as files of the directory root
SubDirs(tree, root) ==
    {d[Len(root) + 1] : d \in {q \in Dirs(tree) : Len(q) = Len(root) + 1 /\ IsPrefix(root, q)}}

Files(tree, root) ==
    {p[Len(root) + 1] : p \in {q \in tree : Len(q) = Len(root) + 1 /\ IsPrefix(root, q)}}

\* no entry is a file and a directory at once
WellFormed(tree) == tree \cap Dirs(tree) = {}

\* os.path.exists(os.path.join(repo_path, name))
Exists(tree, name) == <<name>> \in tree \/ <<name>> \in Dirs(tree)

MaxFiles == 4

TreesOver(paths) == {t \in SUBSET paths : Cardinality(t) <= MaxFiles /\ WellFormed(t)}

\* os.path.relpath(root, repo_path)
RelPath(root) == IF root = <<>> THEN "." ELSE JoinWith("/", root)

(***************************************************************************)
(* ResearchAgent._analyze_structure: os.walk top-down, ".git" removed from *)
(* dirs before the descent                                                 *)
(***************************************************************************)
PruneGit(dirs) == IF ".git" \in dirs THEN dirs \ {".git"} ELSE dirs

ChildPaths(root, dirs) == [i \in 1..Len(dirs) |-> Append(root, dirs[i])]

RECURSIVE StructureWalk(_, _, _)
StructureWalk(tree, stack, acc) ==
    IF stack = <<>> THEN acc
    ELSE LET root     == Head(stack)
             dirs     == SetToSeq(PruneGit(SubDirs(tree, root)))
             files    == SetToSeq(Files(tree, root))
             rel_path == RelPath(root)
             key      == IF rel_path = "." THEN "/" ELSE rel_path
         IN  StructureWalk(tree, ChildPaths(root, dirs) \o Tail(stack), Put(acc, key, files))

_analyze_structure(tree) == StructureWalk(tree, <<(<<>>)>>, EmptyDict)

(***************************************************************************)
(* ResearchAgent._detect_languages: a second os.walk, every directory      *)
(***************************************************************************)
\* the inner loop without its guard `if ext:`
RECURSIVE CountExtensionsUnguarded(_, _)
CountExtensionsUnguarded(files, extensions) ==
    IF files = <<>> THEN extensions
    ELSE LET ext == Lower(SplitExt(Head(files)))
         IN  CountExtensionsUnguarded(Tail(files),
                 Put(extensions, ext,
                     (IF ext \in DOMAIN extensions THEN extensions[ext] ELSE 0) + 1))

\* the inner loop: for file in files
RECURSIVE CountExtensions(_, _)
CountExtensions(files, extensions) ==
    IF files = <<>> THEN extensions
    ELSE LET ext == Lower(SplitExt(Head(files)))
         IN  CountExtensions(Tail(files),
                 IF ext # ""
                 THEN Put(extensions, ext,
                          (IF ext \in DOMAIN extensions THEN extensions[ext] ELSE 0) + 1)
                 ELSE extensions)

RECURSIVE LanguageWalk(_, _, _)
LanguageWalk(tree, stack, extensions) ==
    IF stack = <<>> THEN extensions
    ELSE LET root  == Head(stack)
             dirs  == SetToSeq(SubDirs(tree, root))
             files == SetToSeq(Files(tree, root))
         IN  LanguageWalk(tree, ChildPaths(root, dirs) \o Tail(stack),
                          CountExtensions(files, extensions))

_detect_languages(tree) == LanguageWalk(tree, <<(<<>>)>>, EmptyDict)

(***************************************************************************)
(* ResearchAgent._analyze_dependencies                                     *)
(***************************************************************************)
FoundNotParsed == "Found but not parsed"

_analyze_python_dependencies(tree, requirements) ==
    LET d1 == IF Exists(tree, "requirements.txt")
              THEN Put(EmptyDict, "requirements.txt", Splitlines(requirements))
              ELSE EmptyDict
        d2 == IF Exists(tree, "setup.py") THEN Put(d1, "setup.py", FoundNotParsed) ELSE d1
        d3 == IF Exists(tree, "pyproject.toml")
              THEN Put(d2, "pyproject.toml", FoundNotParsed) ELSE d2
    IN  d3

_analyze_js_dependencies(tree) ==
    IF Exists(tree, "package.json")
    THEN Put(EmptyDict, "package.json", FoundNotParsed)
    ELSE EmptyDict

_analyze_dependencies(tree, requirements) ==
    [python     |-> _analyze_python_dependencies(tree, requirements),
     javascript |-> _analyze_js_dependencies(tree)]

(***************************************************************************)
(* Input sets of the three analysis specifications                         *)
(***************************************************************************)
\* a working tree with a repository of its own, a nested checkout and a submodule link
WorkFileNames == {"a.py", "b.py", "README", ".git", "Main.PY", ".gitignore"}

TreePaths ==
    {<<f>> : f \in WorkFileNames} \cup {<<"sub", f>> : f \in WorkFileNames}
    \cup { <<".git", "HEAD">>, <<".git", "hooks", "pre-commit.sample">>,
           <<"sub", ".git", "HEAD">> }

MaxScenarioCommits == 2

ScenarioHistories == {h \in Histories : Len(h) <= MaxScenarioCommits}

Manifests == {"requirements.txt", "setup.py", "pyproject.toml", "package.json"}

ManifestPaths == {<<f>> : f \in Manifests} \cup {<<"sub", f>> : f \in Manifests}

MaxLines == 3

RequirementLines == {"", "flask", "requests==2.31"}

\* the texts of at most MaxLines lines, with and without a final line break
RequirementTexts ==
    UNION {{JoinWith("\n", ls) \o nl : ls \in [1..n -> RequirementLines], nl \in {"", "\n"}}
           : n \in 0..MaxLines}

(***************************************************************************)
(* Specification of the history part: basic_info, then the loop of         *)
(* _analyze_contributors one commit at a time                              *)
(***************************************************************************)
cvars == <<commits, total_commits, contributors, cpos, cpc>>
tvars == <<fs, structure, languages, tpc>>
dvars == <<reqContent, dependencies, dpc>>

pvars == <<entry, repoState, credential, include_deployment, output_path, disk0,
           diskDirs, diskFiles, pc, raised, exitCode, printed, crew, building,
           analysis_results, configs, sections, doc, log, llmCalls>>

vars == <<cvars, tvars, dvars, pvars>>

PipelineIdle ==
    /\ entry = "none" /\ repoState = "ok" /\ credential = "none"
    /\ include_deployment = FALSE /\ output_path = ""
    /\ disk0 = EmptyDict /\ diskDirs = {} /\ diskFiles = EmptyDict
    /\ pc = "idle" /\ raised = NoValue /\ exitCode = -1 /\ printed = NoValue
    /\ crew = FALSE /\ building = EmptyDict /\ analysis_results = EmptyDict
    /\ configs = EmptyDict /\ sections = EmptyDict /\ doc = NoValue
    /\ log = <<>> /\ llmCalls = 0

TreeIdle == fs = {} /\ structure = NoValue /\ languages = NoValue /\ tpc = "idle"
DepsIdle == reqContent = "" /\ dependencies = NoValue /\ dpc = "idle"

ContribInit ==
    /\ commits \in Histories
    /\ total_commits = NoValue
    /\ contributors = <<>>
    /\ cpos = 0
    /\ cpc = "basic_info"
    /\ TreeIdle
    /\ DepsIdle
    /\ PipelineIdle

GetBasicInfo ==
    /\ cpc = "basic_info"
    /\ total_commits' = _get_basic_info(commits).total_commits
    /\ cpc' = "loop"
    /\ UNCHANGED <<commits, contributors, cpos, tvars, dvars, pvars>>

ContribIterate ==
    /\ cpc = "loop"
    /\ cpos < Len(commits)
    /\ contributors' = ContribStep(contributors, commits[cpos + 1])
    /\ cpos' = cpos + 1
    /\ UNCHANGED <<commits, total_commits, cpc, tvars, dvars, pvars>>

ContribReturn ==
    /\ cpc = "loop"
    /\ cpos = Len(commits)
    /\ cpc' = "returned"
    /\ UNCHANGED <<commits, total_commits, contributors, cpos, tvars, dvars, pvars>>

ContribNext == GetBasicInfo \/ ContribIterate \/ ContribReturn

SpecContrib == ContribInit /\ [][ContribNext]_vars

(***************************************************************************)
(* Specification of the file-walking part of analyze_repository:           *)
(* structure, languages, contributors, in the order of the dict literal    *)
(***************************************************************************)
TreeInit ==
    /\ fs \in TreesOver(TreePaths)
    /\ commits \in ScenarioHistories
    /\ total_commits = NoValue
    /\ contributors = <<>>
    /\ cpos = 0
    /\ cpc = "idle"
    /\ structure = NoValue
    /\ languages = NoValue
    /\ tpc = "structure"
    /\ DepsIdle
    /\ PipelineIdle

TreeStructure ==
    /\ tpc = "structure"
    /\ structure' = _analyze_structure(fs)
    /\ tpc' = "languages"
    /\ UNCHANGED <<fs, languages, cvars, dvars, pvars>>

TreeLanguages ==
    /\ tpc = "languages"
    /\ languages' = _detect_languages(fs)
    /\ tpc' = "contributors"
    /\ UNCHANGED <<fs, structure, cvars, dvars, pvars>>

TreeContributors ==
    /\ tpc = "contributors"
    /\ contributors' = _analyze_contributors(commits)
    /\ cpos' = Len(commits)
    /\ tpc' = "returned"
    /\ UNCHANGED <<fs, structure, languages, commits, total_commits, cpc, dvars, pvars>>

TreeNext == TreeStructure \/ TreeLanguages \/ TreeContributors

SpecTree == TreeInit /\ [][TreeNext]_vars

(***************************************************************************)
(* Specification of _detect_languages alone, over trees that also hold     *)
(* names with two dots and with a final dot                                *)
(***************************************************************************)
LanguagePaths == TreePaths \cup {<<"archive.tar.gz">>, <<"sub", "notes.">>}

LangInit ==
    /\ fs \in TreesOver(LanguagePaths)
    /\ commits = <<>>
    /\ total_commits = NoValue
    /\ contributors = <<>>
    /\ cpos = 0
    /\ cpc = "idle"
    /\ structure = NoValue
    /\ languages = NoValue
    /\ tpc = "languages"
    /\ DepsIdle
    /\ PipelineIdle

LangNext == TreeLanguages

SpecLang == LangInit /\ [][LangNext]_vars

(***************************************************************************)
(* Specification of the dependency part of analyze_repository              *)
(***************************************************************************)
DepsInit ==
    /\ fs \in TreesOver(ManifestPaths)
    /\ reqContent \in (IF <<"requirements.txt">> \in fs THEN RequirementTexts ELSE {""})
    /\ dependencies = NoValue
    /\ dpc = "dependencies"
    /\ structure = NoValue
    /\ languages = NoValue
    /\ tpc = "idle"
    /\ commits = <<>>
    /\ total_commits = NoValue
    /\ contributors = <<>>
    /\ cpos = 0
    /\ cpc = "idle"
    /\ PipelineIdle

DepsAnalyze ==
    /\ dpc = "dependencies"
    /\ dependencies' = _analyze_dependencies(fs, reqContent)
    /\ dpc' = "returned"
    /\ UNCHANGED <<reqContent, cvars, tvars, pvars>>

DepsNext == DepsAnalyze

SpecDeps == DepsInit /\ [][DepsNext]_vars

(***************************************************************************)
(* The pipeline: cli.main, RepoDocumentationCrew, ResearchAgent,           *)
(* DeploymentAgent and WriterAgent, one action per stage.                  *)
(***************************************************************************)
RepoStates == {"missing", "not_a_repo", "detached", "ok"}

OutputPaths == {"documentation.md", "docs/api/guide.md", "site/index.html"}

\* a tree whose file names, or whose directory names only, mention kubernetes
PipelinePaths ==
    { <<"app.py">>, <<"Kubernetes.yaml">>,
      <<"kubernetes", "deploy.yaml">>, <<"deploy", "service.yaml">> }

PipelineHistories == {h \in Histories : Len(h) <= 1}

\* what the generative service returns for the architecture task
ArchitectureTexts ==
    {"A layered monolith", "Event-driven microservices", "MicroServices behind a gateway"}

PatternTexts == {"Factory\nObserver"}

\* the text agent.execute_task returns for any other task
Generated(task) == "generated " \o task

\* str(list) of a list of str
PyStrList(list) ==
    "[" \o JoinWith(", ", [i \in 1..Len(list) |-> "'" \o list[i] \o "'"]) \o "]"

\* DeploymentAgent._needs_kubernetes
_needs_kubernetes(analysis) ==
    LET has_k8s_files ==
            \E key \in DOMAIN analysis["structure"] :
                Contains(Lower(PyStrList(analysis["structure"][key])), "kubernetes")
        has_microservices ==
            Contains(Lower(analysis["code_analysis"].architecture), "microservices")
    IN  has_k8s_files \/ has_microservices

\* os.path.dirname for a relative path
DirName(path) ==
    LET i == RFind(path, "/") IN IF i = 0 THEN "" ELSE SubSeq(path, 1, i - 1)

\* the directories os.makedirs(dir) needs to exist: dir and its ancestors
DirChain(dir) ==
    LET parts == Split(dir, "/")
    IN  {JoinWith("/", SubSeq(parts, 1, k)) : k \in 1..Len(parts)}

\* markdown.markdown(text) for a text of one paragraph
Markdown(text) == "<p>" \o text \o "</p>"

\* WriterAgent._save_documentation: the convert, makedirs and write steps.
\* os.makedirs("") raises FileNotFoundError before the file is opened.
SaveWritingFirst(content, path, dirs, files) ==
    LET text == IF EndsWith(path, ".html") THEN Markdown(content) ELSE content
        dir  == DirName(path)
    IN  IF dir = ""
        THEN [ok |-> FALSE, dirs |-> dirs, files |-> Put(files, path, text)]
        ELSE [ok |-> TRUE, dirs |-> dirs \cup DirChain(dir), files |-> Put(files, path, text)]

_save_documentation(content, path, dirs, files) ==
    LET text == IF EndsWith(path, ".html") THEN Markdown(content) ELSE content
        dir  == DirName(path)
    IN  IF dir = ""
        THEN [ok |-> FALSE, dirs |-> dirs, files |-> files]
        ELSE [ok |-> TRUE, dirs |-> dirs \cup DirChain(dir), files |-> Put(files, path, text)]

\* the section templates and main.md.j2, which render what they are given
RenderSection(name, value) == "## " \o name

SectionOrder ==
    <<"overview", "architecture", "code_analysis", "structure", "contributors",
      "dependencies", "deployment">>

RenderMain(sect) ==
    JoinWith("\n", [i \in 1..Len(SectionOrder) |->
        IF SectionOrder[i] \in DOMAIN sect THEN sect[SectionOrder[i]] ELSE ""])

\* main.py: if include_deployment
AfterSnapshotAlwaysWriter(include) == "overview"

AfterSnapshot(include) == IF include THEN "docker" ELSE "overview"

\* writer_agent.py: if 'deployment' in analysis_results
AfterSections(analysis) ==
    IF "deployment" \in DOMAIN analysis THEN "deployment_section" ELSE "combine"

fixed == <<cvars, structure, languages, tpc, dependencies, dpc,
           entry, repoState, credential, include_deployment, output_path, disk0>>

PipelineInit ==
    /\ entry \in {"cli", "crew"}
    /\ include_deployment \in (IF entry = "cli" THEN {TRUE} ELSE BOOLEAN)
    /\ repoState \in RepoStates
    /\ credential \in {"arg", "env", "none"}
    /\ output_path \in OutputPaths
    /\ \E fresh \in BOOLEAN :
         /\ diskDirs = (IF fresh \/ DirName(output_path) = "" THEN {}
                        ELSE DirChain(DirName(output_path)))
         /\ diskFiles = (IF fresh THEN EmptyDict
                         ELSE Put(EmptyDict, output_path, "an earlier document"))
    /\ disk0 = diskFiles
    /\ fs \in (IF repoState = "missing" THEN {{}} ELSE TreesOver(PipelinePaths))
    /\ commits \in (IF repoState \in {"missing", "not_a_repo"} THEN {<<>>}
                    ELSE PipelineHistories)
    /\ reqContent = ""
    /\ pc = (IF entry = "cli" THEN "cli_check_path" ELSE "crew_init")
    /\ raised = NoValue /\ exitCode = -1 /\ printed = NoValue
    /\ crew = FALSE /\ building = EmptyDict /\ analysis_results = EmptyDict
    /\ configs = EmptyDict /\ sections = EmptyDict /\ doc = NoValue
    /\ log = <<>> /\ llmCalls = 0
    /\ total_commits = NoValue /\ contributors = <<>> /\ cpos = 0 /\ cpc = "idle"
    /\ structure = NoValue /\ languages = NoValue /\ tpc = "idle"
    /\ dependencies = NoValue /\ dpc = "idle"

\* a stage completes: it is logged, made `calls` generative calls, and left its value
Complete(next, stage, calls, b, a, c, s, d) ==
    /\ pc' = next
    /\ log' = Append(log, stage)
    /\ llmCalls' = llmCalls + calls
    /\ building' = b
    /\ analysis_results' = a
    /\ configs' = c
    /\ sections' = s
    /\ doc' = d
    /\ UNCHANGED <<fixed, fs, reqContent, diskDirs, diskFiles, raised, exitCode, printed, crew>>

\* an exception leaves the stage: cli.main's try block catches it, otherwise it
\* propagates out of the pipeline
Raise(kind, calls) ==
    /\ raised' = kind
    /\ pc' = (IF entry = "cli" THEN "cli_except" ELSE "propagated")
    /\ llmCalls' = llmCalls + calls
    /\ UNCHANGED <<fixed, fs, reqContent, diskDirs, diskFiles, exitCode, printed, crew,
                   building, analysis_results, configs, sections, doc, log>>

\* cli.main: if not os.path.exists(args.repo)
CliCheckPath ==
    /\ pc = "cli_check_path"
    /\ IF repoState = "missing"
       THEN /\ printed' = "Error: Repository path does not exist"
            /\ exitCode' = 1
            /\ pc' = "exited"
       ELSE /\ pc' = "cli_check_key"
            /\ UNCHANGED <<printed, exitCode>>
    /\ UNCHANGED <<fixed, fs, reqContent, diskDirs, diskFiles, raised, crew, building,
                   analysis_results, configs, sections, doc, log, llmCalls>>

\* cli.main: args.api_key, else OPENAI_API_KEY from the environment
CliCheckKey ==
    /\ pc = "cli_check_key"
    /\ IF credential = "none"
       THEN /\ printed' = "Error: OpenAI API key not found"
            /\ exitCode' = 1
            /\ pc' = "exited"
       ELSE /\ pc' = "crew_init"
            /\ UNCHANGED <<printed, exitCode>>
    /\ UNCHANGED <<fixed, fs, reqContent, diskDirs, diskFiles, raised, crew, building,
                   analysis_results, configs, sections, doc, log, llmCalls>>

\* RepoDocumentationCrew.__init__: api_key is the argument, else the environment's
CrewInit ==
    /\ pc = "crew_init"
    /\ \/ /\ credential = "none"
          /\ Raise("ValueError: OpenAI API key not found", 0)
       \/ /\ credential # "none"
          /\ crew' = TRUE
          /\ pc' = "generate"
          /\ printed' = (IF entry = "cli" THEN "Analyzing repository" ELSE printed)
          /\ UNCHANGED <<fixed, fs, reqContent, diskDirs, diskFiles, raised, exitCode,
                         building, analysis_results, configs, sections, doc, log, llmCalls>>

\* RepoDocumentationCrew.generate_documentation: if not os.path.exists(repo_path)
GenerateCheckPath ==
    /\ pc = "generate"
    /\ \/ /\ repoState = "missing"
          /\ Raise("ValueError: Repository path does not exist", 0)
       \/ /\ repoState # "missing"
          /\ pc' = "open_repo"
          /\ UNCHANGED <<fixed, fs, reqContent, diskDirs, diskFiles, raised, exitCode, printed,
                         crew, building, analysis_results, configs, sections, doc, log,
                         llmCalls>>

\* ResearchAgent.analyze_repository: repo = Repo(repo_path)
OpenRepo ==
    /\ pc = "open_repo"
    /\ \/ /\ repoState = "not_a_repo"
          /\ Raise("InvalidGitRepositoryError", 0)
       \/ /\ repoState # "not_a_repo"
          /\ pc' = "basic_info"
          /\ UNCHANGED <<fixed, fs, reqContent, diskDirs, diskFiles, raised, exitCode, printed,
                         crew, building, analysis_results, configs, sections, doc, log,
                         llmCalls>>

\* _get_basic_info: repo.active_branch raises TypeError on a detached HEAD
BuildBasicInfo ==
    /\ pc = "basic_info"
    /\ \/ /\ repoState = "detached"
          /\ Raise("TypeError: HEAD is a detached symbolic reference", 0)
       \/ /\ repoState = "ok"
          /\ Complete("structure", "identity", 0,
                      Put(building, "basic_info", _get_basic_info(commits)),
                      analysis_results, configs, sections, doc)

BuildStructure ==
    /\ pc = "structure"
    /\ Complete("languages", "file_tree", 0,
                Put(building, "structure", _analyze_structure(fs)),
                analysis_results, configs, sections, doc)

BuildLanguages ==
    /\ pc = "languages"
    /\ Complete("architecture", "languages", 0,
                Put(building, "languages", _detect_languages(fs)),
                analysis_results, configs, sections, doc)

\* _identify_architecture: one generative call
BuildArchitecture ==
    /\ pc = "architecture"
    /\ \/ \E text \in ArchitectureTexts :
            Complete("patterns", "architecture", 1,
                     Put(building, "architecture", text),
                     analysis_results, configs, sections, doc)
       \/ Raise("ExternalServiceFailure", 1)

\* _identify_patterns: one generative call, the answer split on line breaks
BuildPatterns ==
    /\ pc = "patterns"
    /\ \/ \E text \in PatternTexts :
            Complete("contributors", "patterns", 1,
                     Put(building, "patterns", Split(text, "\n")),
                     analysis_results, configs, sections, doc)
       \/ Raise("ExternalServiceFailure", 1)

BuildContributors ==
    /\ pc = "contributors"
    /\ Complete("dependencies", "contributors", 0,
                Put(building, "contributors", _analyze_contributors(commits)),
                analysis_results, configs, sections, doc)

\* _analyze_dependencies, then the dict literal is complete and returned
BuildDependencies ==
    /\ pc = "dependencies"
    /\ LET deps == _analyze_dependencies(fs, reqContent)
           analysis ==
               [k \in {"basic_info", "structure", "code_analysis", "contributors",
                       "dependencies"} |->
                   CASE k = "basic_info"    -> building["basic_info"]
                     [] k = "structure"     -> building["structure"]
                     [] k = "code_analysis" ->
                            [languages    |-> building["languages"],
                             architecture |-> building["architecture"],
                             patterns     |-> building["patterns"]]
                     [] k = "contributors"  -> building["contributors"]
                     [] k = "dependencies"  -> deps]
       IN  Complete(AfterSnapshot(include_deployment), "dependencies", 0,
                    Put(building, "dependencies", deps),
                    analysis, configs, sections, doc)

(***************************************************************************)
(* DeploymentAgent.generate_deployment_config: docker, k8s, ci_cd and      *)
(* env_vars in the order of the dict literal, then main.py merges the set  *)
(***************************************************************************)
GenerateDockerfile ==
    /\ pc = "docker"
    /\ \/ Complete("k8s", "docker", 1, building, analysis_results,
                   Put(configs, "docker", Generated("Dockerfile")), sections, doc)
       \/ Raise("ExternalServiceFailure", 1)

\* _generate_kubernetes_config(...) if _needs_kubernetes(...)
GenerateKubernetes ==
    /\ pc = "k8s"
    /\ _needs_kubernetes(analysis_results)
    /\ \/ Complete("ci_cd", "k8s", 1, building, analysis_results,
                   Put(configs, "k8s", Generated("Kubernetes YAML")), sections, doc)
       \/ Raise("ExternalServiceFailure", 1)

\* ... else None: no stage runs, the field is left absent
SkipKubernetes ==
    /\ pc = "k8s"
    /\ ~_needs_kubernetes(analysis_results)
    /\ pc' = "ci_cd"
    /\ configs' = Put(configs, "k8s", NoValue)
    /\ UNCHANGED <<fixed, fs, reqContent, diskDirs, diskFiles, raised, exitCode, printed, crew,
                   building, analysis_results, sections, doc, log, llmCalls>>

GenerateCiCd ==
    /\ pc = "ci_cd"
    /\ \/ Complete("env_vars", "ci_cd", 1, building, analysis_results,
                   Put(configs, "ci_cd", Generated("CI/CD pipeline")), sections, doc)
       \/ Raise("ExternalServiceFailure", 1)

IdentifyEnvVariables ==
    /\ pc = "env_vars"
    /\ \/ Complete("merge", "env_vars", 1, building, analysis_results,
                   Put(configs, "env_vars", Generated("environment variables")),
                   sections, doc)
       \/ Raise("ExternalServiceFailure", 1)

\* the set folded into the snapshot key by key: analysis_results.update(deployment_configs)
MergeDeploymentByUpdate ==
    /\ pc = "merge"
    /\ Complete("overview", "merge", 0, building,
                [k \in (DOMAIN analysis_results) \cup (DOMAIN configs) |->
                    IF k \in DOMAIN configs THEN configs[k] ELSE analysis_results[k]],
                configs, sections, doc)

\* main.py: analysis_results['deployment'] = deployment_configs
MergeDeployment ==
    /\ pc = "merge"
    /\ Complete("overview", "merge", 0, building,
                Put(analysis_results, "deployment", configs), configs, sections, doc)

(***************************************************************************)
(* WriterAgent.generate_documentation: the sections, assembly, the sink    *)
(***************************************************************************)
GenerateOverview ==
    /\ pc = "overview"
    /\ \/ Complete("architecture_section", "section:overview", 1, building,
                   analysis_results, configs,
                   Put(sections, "overview", Generated("overview")), doc)
       \/ Raise("ExternalServiceFailure", 1)

\* the architecture section filled from the summary already in the snapshot
GenerateArchitectureReusing ==
    /\ pc = "architecture_section"
    /\ Complete("code_analysis_section", "section:architecture", 0, building,
                analysis_results, configs,
                Put(sections, "architecture", analysis_results["code_analysis"].architecture),
                doc)

GenerateArchitecture ==
    /\ pc = "architecture_section"
    /\ \/ Complete("code_analysis_section", "section:architecture", 1, building,
                   analysis_results, configs,
                   Put(sections, "architecture", Generated("architecture")), doc)
       \/ Raise("ExternalServiceFailure", 1)

GenerateCodeAnalysis ==
    /\ pc = "code_analysis_section"
    /\ \/ Complete("structure_section", "section:code_analysis", 1, building,
                   analysis_results, configs,
                   Put(sections, "code_analysis", Generated("code analysis")), doc)
       \/ Raise("ExternalServiceFailure", 1)

\* the three template-backed sections: get_template or render may raise
GenerateStructure ==
    /\ pc = "structure_section"
    /\ \/ Complete("contributors_section", "section:structure", 0, building,
                   analysis_results, configs,
                   Put(sections, "structure",
                       RenderSection("structure", analysis_results["structure"])), doc)
       \/ Raise("TemplateError", 0)

GenerateContributors ==
    /\ pc = "contributors_section"
    /\ \/ Complete("dependencies_section", "section:contributors", 0, building,
                   analysis_results, configs,
                   Put(sections, "contributors",
                       RenderSection("contributors", analysis_results["contributors"])), doc)
       \/ Raise("TemplateError", 0)

GenerateDependencies ==
    /\ pc = "dependencies_section"
    /\ \/ Complete(AfterSections(analysis_results), "section:dependencies", 0, building,
                   analysis_results, configs,
                   Put(sections, "dependencies",
                       RenderSection("dependencies", analysis_results["dependencies"])), doc)
       \/ Raise("TemplateError", 0)

GenerateDeploymentSection ==
    /\ pc = "deployment_section"
    /\ \/ Complete("combine", "section:deployment", 1, building, analysis_results, configs,
                   Put(sections, "deployment", Generated("deployment")), doc)
       \/ Raise("ExternalServiceFailure", 1)

\* _combine_sections
CombineSections ==
    /\ pc = "combine"
    /\ \/ Complete("save", "assembly", 0, building, analysis_results, configs, sections,
                   RenderMain(sections))
       \/ Raise("TemplateError", 0)

\* _save_documentation, then the return to the caller
SaveDocumentation ==
    /\ pc = "save"
    /\ LET out == _save_documentation(doc, output_path, diskDirs, diskFiles)
       IN  /\ diskDirs' = out.dirs
           /\ diskFiles' = out.files
           /\ IF out.ok
              THEN /\ pc' = (IF entry = "cli" THEN "cli_success" ELSE "done")
                   /\ log' = Append(log, "persistence")
                   /\ UNCHANGED raised
              ELSE /\ pc' = (IF entry = "cli" THEN "cli_except" ELSE "propagated")
                   /\ raised' = "FileNotFoundError"
                   /\ UNCHANGED log
    /\ UNCHANGED <<fixed, fs, reqContent, exitCode, printed, crew, building, analysis_results,
                   configs, sections, doc, llmCalls>>

\* cli.main: print the success message, return 0
CliSuccess ==
    /\ pc = "cli_success"
    /\ printed' = "Documentation generated successfully"
    /\ exitCode' = 0
    /\ pc' = "exited"
    /\ UNCHANGED <<fixed, fs, reqContent, diskDirs, diskFiles, raised, crew, building,
                   analysis_results, configs, sections, doc, log, llmCalls>>

\* cli.main: except Exception: print it, return 1
CliExceptReturningZero ==
    /\ pc = "cli_except"
    /\ printed' = "Error: " \o raised
    /\ exitCode' = 0
    /\ pc' = "exited"
    /\ UNCHANGED <<fixed, fs, reqContent, diskDirs, diskFiles, raised, crew, building,
                   analysis_results, configs, sections, doc, log, llmCalls>>

CliExcept ==
    /\ pc = "cli_except"
    /\ printed' = "Error: " \o raised
    /\ exitCode' = 1
    /\ pc' = "exited"
    /\ UNCHANGED <<fixed, fs, reqContent, diskDirs, diskFiles, raised, crew, building,
                   analysis_results, configs, sections, doc, log, llmCalls>>

Next ==
    \/ CliCheckPath \/ CliCheckKey \/ CrewInit \/ GenerateCheckPath
    \/ OpenRepo \/ BuildBasicInfo \/ BuildStructure \/ BuildLanguages
    \/ BuildArchitecture \/ BuildPatterns \/ BuildContributors \/ BuildDependencies
    \/ GenerateDockerfile \/ GenerateKubernetes \/ SkipKubernetes \/ GenerateCiCd
    \/ IdentifyEnvVariables \/ MergeDeployment
    \/ GenerateOverview \/ GenerateArchitecture \/ GenerateCodeAnalysis
    \/ GenerateStructure \/ GenerateContributors \/ GenerateDependencies
    \/ GenerateDeploymentSection \/ CombineSections \/ SaveDocumentation
    \/ CliSuccess \/ CliExcept

Init == PipelineInit

Spec == Init /\ [][Next]_vars

(***************************************************************************)
(* C1: the (name, email) pairs of the returned contributor list are        *)
(* pairwise distinct: at most one record per identity.                     *)
(***************************************************************************)
C1_UniqueIdentities ==
    cpc = "returned" =>
        \A i, j \in 1..Len(contributors) :
            (contributors[i].name = contributors[j].name
             /\ contributors[i].email = contributors[j].email) => i = j

(***************************************************************************)
(* C2: after every processed commit the counts sum to the number of        *)
(* commits processed, at the end to basic_info.total_commits, and each     *)
(* iteration either appends one record with count 1 or adds one to exactly *)
(* one existing record.                                                    *)
(***************************************************************************)
OneCommitOneRecord ==
    contributors' # contributors =>
        \/ /\ Len(contributors') = Len(contributors) + 1
           /\ SubSeq(contributors', 1, Len(contributors)) = contributors
           /\ contributors'[Len(contributors')].commits = 1
        \/ /\ Len(contributors') = Len(contributors)
           /\ \E i \in 1..Len(contributors) :
                /\ contributors'[i] = [contributors[i] EXCEPT !.commits = @ + 1]
                /\ \A j \in 1..Len(contributors) : j # i => contributors'[j] = contributors[j]

C2_CountsSumToCommits ==
    /\ [](SumCommits(contributors) = cpos)
    /\ [](\A i \in 1..Len(contributors) : contributors[i].commits >= 1)
    /\ [](cpc = "returned" => SumCommits(contributors) = total_commits)
    /\ [][OneCommitOneRecord]_vars

C2_Witness ==
    /\ cpc = "returned"
    /\ Len(commits) >= 3
    /\ Len(contributors) >= 2
    /\ \E i \in 1..Len(contributors) : contributors[i].commits = 2

(***************************************************************************)
(* C3: ".git" never appears in the mapping returned by _analyze_structure: *)
(* it is no key, no path component of a key and no element of a value      *)
(* list, whether ".git" is a directory or a regular file, at the root or   *)
(* nested.                                                                 *)
(***************************************************************************)
GitInStructure(m) ==
    \E key \in DOMAIN m :
        \/ ".git" \in Range(Split(key, "/"))
        \/ ".git" \in Range(m[key])

C3_GitNeverListed == tpc # "structure" /\ tpc # "idle" => ~GitInStructure(structure)

(***************************************************************************)
(* C9: a root requirements.txt with N non-empty lines yields a list of     *)
(* length N under dependencies.python, and a manifest that exists only in  *)
(* a subdirectory adds no entry.                                           *)
(***************************************************************************)
RECURSIVE CountNonEmpty(_)
CountNonEmpty(parts) ==
    IF parts = <<>> THEN 0
    ELSE (IF Head(parts) # "" THEN 1 ELSE 0) + CountNonEmpty(Tail(parts))

NonEmptyLines(text) == CountNonEmpty(Split(text, "\n"))

RootManifests(tree) == {m \in Manifests : <<m>> \in tree}

C9_RequirementsLength ==
    dpc = "returned" =>
        /\ (DOMAIN dependencies.python) \cup (DOMAIN dependencies.javascript)
               = RootManifests(fs)
        /\ <<"requirements.txt">> \in fs =>
               Len(dependencies.python["requirements.txt"]) = NonEmptyLines(reqContent)

(***************************************************************************)
(* C10: one commit, one contributor, a.py, b.py and README at the root and *)
(* the metadata directory with files of its own: the language histogram is *)
(* exactly {".py": 2}, structure["/"] holds exactly the three root files,  *)
(* and there is exactly one contributor record, with commit count 1.       *)
(***************************************************************************)
ScenarioTree(tree) ==
    /\ Files(tree, <<>>) = {"a.py", "b.py", "README"}
    /\ SubDirs(tree, <<>>) = {".git"}
    /\ \E p \in tree : IsPrefix(<<".git">>, p)

C10_EndToEndScenario ==
    (tpc = "returned" /\ ScenarioTree(fs) /\ Len(commits) = 1) =>
        /\ languages = Put(EmptyDict, ".py", 2)
        /\ Range(structure["/"]) = {"a.py", "b.py", "README"}
        /\ Len(structure["/"]) = 3
        /\ contributors = <<[name |-> commits[1].name, email |-> commits[1].email, commits |-> 1]>>

(***************************************************************************)
(* C4: once the deployment set is merged, its k8s field is present, and    *)
(* the Kubernetes stage has run, if and only if some file of the file tree *)
(* has a relative path containing "kubernetes" (in its directory part or   *)
(* in its name, in any case) or the architecture summary contains          *)
(* "microservices" in any case.                                            *)
(***************************************************************************)
RelFile(key, name) == IF key = "/" THEN name ELSE key \o "/" \o name

PathHeuristic(analysis) ==
    \/ \E key \in DOMAIN analysis["structure"] :
         \E i \in 1..Len(analysis["structure"][key]) :
            Contains(Lower(RelFile(key, analysis["structure"][key][i])), "kubernetes")
    \/ Contains(Lower(analysis["code_analysis"].architecture), "microservices")

C4_KubernetesIffHeuristic ==
    "deployment" \in DOMAIN analysis_results =>
        /\ analysis_results["deployment"]["k8s"] # NoValue <=> PathHeuristic(analysis_results)
        /\ "k8s" \in Range(log) <=> PathHeuristic(analysis_results)

(***************************************************************************)
(* C5: the stages of a run complete in one fixed order: the seven parts of *)
(* the snapshot, then (if include_deployment) docker, k8s only when the    *)
(* heuristic of _needs_kubernetes fires, ci_cd, env_vars and the merge,    *)
(* then the six sections and the deployment section iff include_deployment,*)
(* then assembly, then persistence.  Assembly starts only with all         *)
(* sections present, and a successful run has completed every stage.       *)
(***************************************************************************)
SnapshotStages ==
    <<"identity", "file_tree", "languages", "architecture", "patterns", "contributors",
      "dependencies">>

SectionNames ==
    {"overview", "architecture", "code_analysis", "structure", "contributors", "dependencies"}

ExpectedOrder(include, k8s) ==
    SnapshotStages
    \o (IF include
        THEN <<"docker">> \o (IF k8s THEN <<"k8s">> ELSE <<>>) \o <<"ci_cd", "env_vars", "merge">>
        ELSE <<>>)
    \o <<"section:overview", "section:architecture", "section:code_analysis",
         "section:structure", "section:contributors", "section:dependencies">>
    \o (IF include THEN <<"section:deployment">> ELSE <<>>)
    \o <<"assembly", "persistence">>

Succeeded == pc \in {"done", "cli_success"} \/ (pc = "exited" /\ exitCode = 0)

C5_FixedStageOrder ==
    /\ \E k8s \in BOOLEAN : IsPrefix(log, ExpectedOrder(include_deployment, k8s))
    /\ "k8s" \in Range(log) => _needs_kubernetes(analysis_results)
    /\ "assembly" \in Range(log) =>
          DOMAIN sections = SectionNames \cup (IF include_deployment THEN {"deployment"} ELSE {})
    /\ Succeeded =>
          log = ExpectedOrder(include_deployment,
                              include_deployment /\ _needs_kubernetes(analysis_results))

C5_Witness ==
    /\ Succeeded
    /\ include_deployment
    /\ "k8s" \in Range(log)
    /\ "section:deployment" \in Range(log)
    /\ log[Len(log)] = "persistence"

(***************************************************************************)
(* C6: a failure ends the run: after an exception no stage completes, no   *)
(* generative call is made and nothing is retried; whenever a run failed,  *)
(* the files of the destination are those the run started with; and a      *)
(* missing path, an invalid repository or a detached HEAD fails the run    *)
(* before any stage completed and before any generative call.              *)
(***************************************************************************)
BuilderErrors ==
    {"ValueError: Repository path does not exist", "InvalidGitRepositoryError",
     "TypeError: HEAD is a detached symbolic reference"}

Failed == raised # NoValue \/ exitCode = 1

AfterFailure ==
    raised # NoValue =>
        /\ log' = log
        /\ llmCalls' = llmCalls
        /\ diskFiles' = diskFiles
        /\ raised' = raised
        /\ pc' = "exited"

C6_FailuresAreFatal ==
    /\ [](Failed => diskFiles = disk0)
    /\ [](raised \in BuilderErrors => llmCalls = 0 /\ log = <<>>)
    /\ [](repoState # "ok" => llmCalls = 0 /\ log = <<>>)
    /\ [][AfterFailure]_vars

C6_Witness ==
    /\ raised = "ExternalServiceFailure"
    /\ pc \in {"exited", "propagated"}
    /\ "merge" \in Range(log)
    /\ disk0 # EmptyDict

(***************************************************************************)
(* C7: once assembly has succeeded and the sink has run, the destination   *)
(* holds the final text (converted to HTML exactly for a name ending in    *)
(* ".html") and its directories exist, also for a destination without a    *)
(* directory component such as documentation.md.                           *)
(***************************************************************************)
SinkHasRun == "assembly" \in Range(log) /\ pc # "save"

C7_SinkWritesDestination ==
    SinkHasRun =>
        /\ output_path \in DOMAIN diskFiles
        /\ diskFiles[output_path] =
              (IF EndsWith(output_path, ".html") THEN Markdown(doc) ELSE doc)
        /\ DirName(output_path) # "" => DirChain(DirName(output_path)) \subseteq diskDirs

(***************************************************************************)
(* C8: cli.main returns 0 exactly when the pipeline completed without an   *)
(* exception and 1 otherwise; a missing path or a missing credential       *)
(* returns 1 with no pipeline constructed and no stage run, the path being *)
(* checked first; and no exception leaves cli.main.                        *)
(***************************************************************************)
C8_ExitCodes ==
    entry = "cli" =>
        /\ pc # "propagated"
        /\ exitCode # -1 <=> pc = "exited"
        /\ pc = "exited" =>
              /\ exitCode \in {0, 1}
              /\ exitCode = 0 <=> (raised = NoValue /\ "persistence" \in Range(log))
              /\ exitCode = 1 <=>
                    (raised # NoValue \/ repoState = "missing" \/ credential = "none")
              /\ repoState = "missing" =>
                    /\ exitCode = 1 /\ ~crew /\ log = <<>> /\ llmCalls = 0
                    /\ printed = "Error: Repository path does not exist"
              /\ (repoState # "missing" /\ credential = "none") =>
                    /\ exitCode = 1 /\ ~crew /\ log = <<>> /\ llmCalls = 0
                    /\ printed = "Error: OpenAI API key not found"

C8_Witness ==
    /\ entry = "cli"
    /\ pc = "exited"
    /\ exitCode = 1
    /\ repoState = "missing"
    /\ credential = "none"

(***************************************************************************)
(* C11: a run makes at most ten generative calls: a successful run makes   *)
(* exactly 5 without deployment, 9 with deployment when _needs_kubernetes  *)
(* is false and 10 when it is true.  Every generation-backed stage that    *)
(* completes has made one call of its own (no result serves two stages),   *)
(* and the template-backed sections, the merge and assembly make none.     *)
(***************************************************************************)
GenerativeStages ==
    {"architecture", "patterns", "docker", "k8s", "ci_cd", "env_vars",
     "section:overview", "section:architecture", "section:code_analysis",
     "section:deployment"}

GenerativeDone == Cardinality({i \in 1..Len(log) : log[i] \in GenerativeStages})

OneCallPerGenerativeStage ==
    (Len(log') = Len(log) + 1) =>
        llmCalls' = llmCalls + (IF log'[Len(log')] \in GenerativeStages THEN 1 ELSE 0)

C11_GenerativeCallCount ==
    /\ [](llmCalls <= 10)
    /\ [](raised = NoValue => llmCalls = GenerativeDone)
    /\ [](Succeeded =>
            llmCalls = (IF ~include_deployment THEN 5
                        ELSE IF _needs_kubernetes(analysis_results) THEN 10 ELSE 9))
    /\ [][OneCallPerGenerativeStage]_vars

C11_Witness ==
    /\ Succeeded
    /\ include_deployment
    /\ ~_needs_kubernetes(analysis_results)
    /\ llmCalls = 9

(***************************************************************************)
(* C12: once analyze_repository has returned, the values under basic_info, *)
(* structure, code_analysis, contributors and dependencies never change;   *)
(* the only change to the snapshot is the addition of the one key          *)
(* 'deployment', which is added exactly when include_deployment is true    *)
(* and keeps its value afterwards.                                         *)
(***************************************************************************)
SnapshotKeys == {"basic_info", "structure", "code_analysis", "contributors", "dependencies"}

SnapshotAppendOnly ==
    analysis_results # EmptyDict =>
        /\ \A k \in DOMAIN analysis_results :
              k \in DOMAIN analysis_results' /\ analysis_results'[k] = analysis_results[k]
        /\ (DOMAIN analysis_results') \ (DOMAIN analysis_results) \subseteq {"deployment"}

C12_SnapshotAppendOnly ==
    /\ [](analysis_results # EmptyDict =>
            /\ SnapshotKeys \subseteq DOMAIN analysis_results
            /\ DOMAIN analysis_results \subseteq SnapshotKeys \cup {"deployment"}
            /\ \A k \in SnapshotKeys \ {"code_analysis"} : analysis_results[k] = building[k]
            /\ "deployment" \in DOMAIN analysis_results => include_deployment)
    /\ [](("section:overview" \in Range(log) /\ include_deployment) =>
            "deployment" \in DOMAIN analysis_results)
    /\ [][SnapshotAppendOnly]_vars

C12_Witness ==
    /\ Succeeded
    /\ "deployment" \in DOMAIN analysis_results
    /\ analysis_results["deployment"]["k8s"] = NoValue
    /\ analysis_results["structure"] # Put(EmptyDict, "/", <<>>)

(***************************************************************************)
(* C13: the language histogram has no empty-string key; every key is a     *)
(* lowercase extension starting with the separator; the count under a key  *)
(* is the number of walked files whose lowercased extension is that key;   *)
(* names without an extension (README, HEAD, and dot-files such as         *)
(* .gitignore and .git) add nothing, so the counts sum to the number of    *)
(* walked files that have an extension.                                    *)
(***************************************************************************)
LastName(p) == p[Len(p)]

NoExtensionNames == {"README", "HEAD", ".gitignore", ".git"}

RECURSIVE SumCounts(_, _)
SumCounts(hist, keys) ==
    IF keys = {} THEN 0
    ELSE LET k == CHOOSE x \in keys : TRUE IN hist[k] + SumCounts(hist, keys \ {k})

C13_LanguageHistogram ==
    tpc = "contributors" =>
        /\ "" \notin DOMAIN languages
        /\ \A ext \in DOMAIN languages :
              /\ CharAt(ext, 1) = "."
              /\ \A i \in 1..Len(ext) : CharAt(ext, i) \notin UpperSet
              /\ languages[ext] =
                    Cardinality({p \in fs : Lower(SplitExt(LastName(p))) = ext})
        /\ \A p \in fs :
              LastName(p) \notin NoExtensionNames =>
                  \E ext \in DOMAIN languages : EndsWith(Lower(LastName(p)), ext)
        /\ SumCounts(languages, DOMAIN languages) =
              Cardinality({p \in fs : LastName(p) \notin NoExtensionNames})

C13_Witness ==
    /\ tpc = "contributors"
    /\ <<"Main.PY">> \in fs
    /\ <<"sub", "a.py">> \in fs
    /\ <<".gitignore">> \in fs
    /\ <<".git", "hooks", "pre-commit.sample">> \in fs
    /\ languages = Put(Put(EmptyDict, ".py", 2), ".sample", 1)

(***************************************************************************)
(* C14: after any number of processed commits an author with n processed   *)
(* commits has n \div 2 records with count 2 and n % 2 records with count  *)
(* 1, whatever the interleaving with other authors; every count is 1 or 2; *)
(* an iteration keeps every existing record at its index with its         *)
(* identity and a count that does not decrease; and an author's first      *)
(* record is the one appended at the author's first commit, so first       *)
(* records are ordered as first appearances are.                           *)
(***************************************************************************)
SameIdentity(r, a) == r.name = a.name /\ r.email = a.email

\* number of commits by author a among the first k commits of the history
CommitsBy(a, k) == Cardinality({i \in 1..k : commits[i] = a})

RecordsOf(a, c) ==
    Cardinality({i \in 1..Len(contributors) :
                    SameIdentity(contributors[i], a) /\ contributors[i].commits = c})

FirstAppearance(a) == CHOOSE i \in 1..cpos : commits[i] = a /\ \A j \in 1..(i-1) : commits[j] # a

FirstRecord(a) ==
    CHOOSE i \in 1..Len(contributors) :
        /\ SameIdentity(contributors[i], a)
        /\ \A j \in 1..(i-1) : ~SameIdentity(contributors[j], a)

RECURSIVE RecordsAfter(_, _)
\* number of records the scan holds after k commits: ceil(n/2) per author
RecordsAfter(k, authors) ==
    IF authors = {} THEN 0
    ELSE LET a == CHOOSE x \in authors : TRUE
         IN  ((CommitsBy(a, k) + 1) \div 2) + RecordsAfter(k, authors \ {a})

RecordsStayInPlace ==
    /\ Len(contributors') >= Len(contributors)
    /\ \A i \in 1..Len(contributors) :
          /\ contributors'[i].name = contributors[i].name
          /\ contributors'[i].email = contributors[i].email
          /\ contributors'[i].commits >= contributors[i].commits

C14_LinearScanShape ==
    /\ [](\A a \in Authors :
            /\ RecordsOf(a, 2) = CommitsBy(a, cpos) \div 2
            /\ RecordsOf(a, 1) = CommitsBy(a, cpos) % 2)
    /\ [](\A i \in 1..Len(contributors) :
            /\ contributors[i].commits \in {1, 2}
            /\ \E a \in Authors : SameIdentity(contributors[i], a))
    /\ [](\A a \in Authors :
            CommitsBy(a, cpos) > 0 =>
                /\ FirstRecord(a) = RecordsAfter(FirstAppearance(a) - 1, Authors) + 1
                /\ \A b \in Authors :
                      CommitsBy(b, cpos) > 0 =>
                          (FirstAppearance(a) < FirstAppearance(b)
                              <=> FirstRecord(a) < FirstRecord(b)))
    /\ [][RecordsStayInPlace]_vars

\* ann, bob, ann, ann: the third commit of ann opens a second record after bob's
C14_Witness ==
    /\ cpc = "returned"
    /\ Len(commits) = 4
    /\ \E a, b \in Authors :
          /\ a # b
          /\ commits = <<a, b, a, a>>
          /\ contributors = << [name |-> a.name, email |-> a.email, commits |-> 2],
                               [name |-> b.name, email |-> b.email, commits |-> 1],
                               [name |-> a.name, email |-> a.email, commits |-> 1] >>

====
